---- MODULE Spec2Model ----
(***************************************************************************)
(* django-dolt: the repository operations facade of django_dolt/services.py *)
(* over a Dolt SQL engine.  Text is modelled as sequences of one-character  *)
(* strings so that str.lower(), the `in` substring test, f-string           *)
(* concatenation and SQL LIKE are computed rather than assumed.  An         *)
(* optional value (Python None or a value) is a sequence of length <= 1.    *)
(***************************************************************************)
EXTENDS Integers, Sequences, FiniteSets, TLC

VARIABLES
    working,    \* engine: tables with unstaged changes
    staged,     \* engine: tables with staged changes
    ignore,     \* engine: dolt_ignore, pattern -> "absent" | "0" | "1"
    active,     \* engine: the checked-out branch of the session
    log,        \* engine: commit hashes, newest first
    remotes,    \* engine: names of the configured remotes
    pc,         \* per caller: position inside the running operation
    op,         \* per caller: the operation invoked and its arguments
    ret,        \* per caller: how the last invocation ended
    stmts,      \* per caller: statements the invocation handed to the cursor
    obs,        \* per caller: engine facts seen by the invocation's statements
    cursors,    \* per caller: cursors opened by `with connection.cursor()` and not yet closed
    reads,      \* results of the last status(True), status(False), ignored_tables()
    fresh       \* which of those results were read from the present engine state

engineVars == <<working, staged, ignore, active, log, remotes>>
callVars   == <<pc, op, ret, stmts, obs, cursors>>
readVars   == <<reads, fresh>>
vars       == <<working, staged, ignore, active, log, remotes,
                pc, op, ret, stmts, obs, cursors, reads, fresh>>

----------------------------------------------------------------------------
(* Bounds *)

\* commits the engine accepts on top of the initial one
MaxCommits == 2

----------------------------------------------------------------------------
(* Text *)

UpperAlphabet ==
    <<"A","B","C","D","E","F","G","H","I","J","K","L","M",
      "N","O","P","Q","R","S","T","U","V","W","X","Y","Z">>

LowerAlphabet ==
    <<"a","b","c","d","e","f","g","h","i","j","k","l","m",
      "n","o","p","q","r","s","t","u","v","w","x","y","z">>

\* str.lower() on one character
LowerChar(ch) ==
    IF \E i \in 1..26 : UpperAlphabet[i] = ch
    THEN LowerAlphabet[CHOOSE i \in 1..26 : UpperAlphabet[i] = ch]
    ELSE ch

\* str.lower()
Lower(s) == [i \in 1..Len(s) |-> LowerChar(s[i])]

\* Python's `needle in hay` on strings
Contains(hay, needle) ==
    \E i \in 0..(Len(hay) - Len(needle)) :
        SubSeq(hay, i + 1, i + Len(needle)) = needle

Digits == <<"0","1","2","3","4","5","6","7","8","9">>

RECURSIVE StrNat(_)
\* str() of a non-negative int
StrNat(n) ==
    IF n < 10 THEN <<Digits[n + 1]>>
    ELSE StrNat(n \div 10) \o <<Digits[(n % 10) + 1]>>

RECURSIVE Like(_, _)
\* SQL `name LIKE pattern`: % matches any run of characters, _ exactly one
Like(name, pattern) ==
    IF pattern = <<>> THEN name = <<>>
    ELSE IF Head(pattern) = "%"
         THEN \E k \in 0..Len(name) :
                 Like(SubSeq(name, k + 1, Len(name)), Tail(pattern))
    ELSE IF name = <<>> THEN FALSE
    ELSE /\ (Head(pattern) = "_" \/ Head(pattern) = Head(name))
         /\ Like(Tail(name), Tail(pattern))

None == <<>>
Some(x) == <<x>>

----------------------------------------------------------------------------
(* Literals of services.py *)

NothingToCommit == <<"n","o","t","h","i","n","g"," ","t","o"," ","c","o","m","m","i","t">>
PasswordMarker == <<"D","O","L","T","_","R","E","M","O","T","E","_","P","A","S","S","W","O","R","D">>
FailedToStage == <<"F","a","i","l","e","d"," ","t","o"," ","s","t","a","g","e"," ","'">>
QuoteColon == <<"'",":"," ">>
FailedToCommit == <<"F","a","i","l","e","d"," ","t","o"," ","c","o","m","m","i","t",":"," ">>
FailedToAddRemote == <<"F","a","i","l","e","d"," ","t","o"," ","a","d","d"," ","r","e","m","o","t","e"," ","'">>
PushFailed == <<"P","u","s","h"," ","f","a","i","l","e","d",":"," ">>
PushNote == <<"\n","N","o","t","e",":"," ","D","O","L","T","_","P","U","S","H"," ","r","e","q","u","i","r","e","s"," ","t","h","e"," ","D","O","L","T","_","R","E","M","O","T","E","_","P","A","S","S","W","O","R","D"," ","e","n","v","i","r","o","n","m","e","n","t"," ","v","a","r","i","a","b","l","e"," ","t","o"," ","b","e"," ","s","e","t"," ","a","t"," ","t","h","e"," ","D","o","l","t"," ","s","e","r","v","e","r"," ","l","e","v","e","l",".">>
PullFailed == <<"P","u","l","l"," ","f","a","i","l","e","d",":"," ">>
FetchFailed == <<"F","e","t","c","h"," ","f","a","i","l","e","d",":"," ">>
Pushed == <<"P","u","s","h","e","d"," ">>
To == <<" ","t","o"," ">>
PulledWith == <<"P","u","l","l","e","d"," ","w","i","t","h"," ">>
Conflicts == <<" ","c","o","n","f","l","i","c","t","s">>
FastForwardMsg == <<"F","a","s","t","-","f","o","r","w","a","r","d"," ","p","u","l","l"," ","s","u","c","c","e","s","s","f","u","l">>
UpToDateMsg == <<"A","l","r","e","a","d","y"," ","u","p"," ","t","o"," ","d","a","t","e">>
PullCompletedMsg == <<"P","u","l","l"," ","c","o","m","p","l","e","t","e","d">>
FetchedFrom == <<"F","e","t","c","h","e","d"," ","f","r","o","m"," ">>
Main == <<"m","a","i","n">>
Origin == <<"o","r","i","g","i","n">>
Dot == <<".">>
DefaultAuthor == <<"D","j","a","n","g","o"," ","<","d","j","a","n","g","o","@","l","o","c","a","l","h","o","s","t",">">>

----------------------------------------------------------------------------
(* The values the callers and the engine draw from *)

Callers == {"c1", "c2"}

TableA == <<"t","a">>
TableB == <<"u","b">>
Tables == {TableA, TableB}
\* the engine's native order of tables in dolt_status
TableOrder == <<TableA, TableB>>
NoSuchTable == <<"z","z">>
StageTargets == Tables \cup {Dot, NoSuchTable}

PatternT == <<"t","%">>
PatternU == <<"u","_">>
Patterns == {PatternT, PatternU}
PatternOrder == <<PatternT, PatternU>>

Dev == <<"d","e","v">>
Branches == {Main, Dev}

Backup == <<"b","k">>
RemoteNames == {Origin, Backup}
Url == <<"u","r","l">>

Message == <<"m","s","g">>

\* texts of the exceptions the database driver raises
ErrNothingLower == <<"n","o","t","h","i","n","g"," ","t","o"," ","c","o","m","m","i","t">>
ErrNothingMixed == <<"N","o","t","h","i","n","g"," ","T","o"," ","C","o","m","m","i","t">>
ErrNothingUpper == <<"e","r","r","o","r",":"," ","N","O","T","H","I","N","G"," ","T","O"," ","C","O","M","M","I","T">>
ErrNoTable == <<"t","a","b","l","e"," ","n","o","t"," ","f","o","u","n","d">>
ErrGone == <<"s","e","r","v","e","r"," ","h","a","s"," ","g","o","n","e"," ","a","w","a","y">>
ErrPassword == <<"s","e","t"," ","D","O","L","T","_","R","E","M","O","T","E","_","P","A","S","S","W","O","R","D">>
ErrExists == <<"r","e","m","o","t","e"," ","e","x","i","s","t","s">>

\* what the engine says when a commit finds nothing staged
NothingTexts == {ErrNothingLower, ErrNothingMixed, ErrNothingUpper}

----------------------------------------------------------------------------
(* Outcomes of an invocation *)

Return(v) == [kind |-> "return", value |-> v]
Raise(t, m) == [kind |-> "raise", type |-> t, msg |-> m]
NotRun == [kind |-> "none"]

\* the exception classes of services.py; a driver exception is none of them
TypedErrors == {"DoltError", "DoltCommitError", "DoltPushError", "DoltPullError"}
DriverError == "DriverError"

\* a statement as handed to cursor.execute: its text, its %s placeholders, its arguments
Stmt(sql, nph, args) == [sql |-> sql, placeholders |-> nph, args |-> args]

\* what the driver answers: the rows of the cursor (with cursor.description for a
\* SELECT), or an exception with its text
Ok(rows) == [kind |-> "ok", rows |-> rows]
Selected(columns, rows) == [kind |-> "ok", rows |-> rows, description |-> columns]
Exc(text) == [kind |-> "exc", text |-> text]

\* cursor.fetchone(): the first row, or None
FetchOne(reply) == IF reply.rows = <<>> THEN None ELSE Some(reply.rows[1])

NoOp == [name |-> "none"]

----------------------------------------------------------------------------------------------------------------------------------------------
(* Bookkeeping of an invocation *)

\* facts the statements of an invocation saw; reset when the invocation starts
NoObs ==
    [replies       |-> <<>>,   \* the driver's answers, in order
     addWorking    |-> {},     \* the working set when DOLT_ADD ran
     addStaged     |-> {},     \* the staged set when DOLT_ADD ran
     commitStaged  |-> {},     \* the staged set when DOLT_COMMIT ran
     branch        |-> None,   \* the branch dolt_pull resolved, or dolt_sync committed on
     commitRan     |-> FALSE]  \* DOLT_COMMIT was executed

Init ==
    /\ working = {}
    /\ staged = {}
    /\ ignore = [p \in Patterns |-> "absent"]
    /\ active = Main
    /\ log = <<>>
    /\ remotes = {Origin}
    /\ pc = [c \in Callers |-> "idle"]
    /\ op = [c \in Callers |-> NoOp]
    /\ ret = [c \in Callers |-> NotRun]
    /\ stmts = [c \in Callers |-> <<>>]
    /\ obs = [c \in Callers |-> NoObs]
    /\ cursors = [c \in Callers |-> 0]
    /\ reads = [filtered |-> None, unfiltered |-> None, ignored |-> None]
    /\ fresh = {}

\* an invocation that starts only while no other caller is inside one
BeginSerialized(c, o, at) ==
    /\ \A d \in Callers : pc[d] = "idle"
    /\ pc' = [pc EXCEPT ![c] = at]
    /\ op' = [op EXCEPT ![c] = o]
    /\ ret' = [ret EXCEPT ![c] = NotRun]
    /\ stmts' = [stmts EXCEPT ![c] = <<>>]
    /\ obs' = [obs EXCEPT ![c] = NoObs]
    /\ cursors' = [cursors EXCEPT ![c] = @ + 1]
    /\ UNCHANGED <<engineVars, readVars>>

\* an invocation starts: the caller is inside the first `with connection.cursor()`
Begin(c, o, at) ==
    /\ pc[c] = "idle"
    /\ pc' = [pc EXCEPT ![c] = at]
    /\ op' = [op EXCEPT ![c] = o]
    /\ ret' = [ret EXCEPT ![c] = NotRun]
    /\ stmts' = [stmts EXCEPT ![c] = <<>>]
    /\ obs' = [obs EXCEPT ![c] = NoObs]
    /\ cursors' = [cursors EXCEPT ![c] = @ + 1]
    /\ UNCHANGED <<engineVars, readVars>>

\* the statement is handed to the cursor and answered
Executed(c, stmt, reply) ==
    /\ stmts' = [stmts EXCEPT ![c] = Append(@, stmt)]
    /\ obs' = [obs EXCEPT ![c].replies = Append(@, reply)]

\* leaving the invocation without closing its cursor
FinishLeakingCursor(c, out) ==
    /\ pc' = [pc EXCEPT ![c] = "idle"]
    /\ ret' = [ret EXCEPT ![c] = out]
    /\ UNCHANGED cursors

\* the `with` block is left and the invocation ends with outcome out
Finish(c, out) ==
    /\ pc' = [pc EXCEPT ![c] = "idle"]
    /\ ret' = [ret EXCEPT ![c] = out]
    /\ cursors' = [cursors EXCEPT ![c] = @ - 1]

\* the `with` block is left and the next one of the same invocation is entered
Proceed(c, at) ==
    /\ pc' = [pc EXCEPT ![c] = at]
    /\ cursors' = [cursors EXCEPT ![c] = (@ - 1) + 1]
    /\ UNCHANGED ret

----------------------------------------------------------------------------
(* Other SQL sessions: rows are edited, dolt_ignore is edited, a branch is
   checked out *)

EnvModify(t) ==
    /\ t \notin working
    /\ working' = working \cup {t}
    /\ fresh' = {}
    /\ UNCHANGED <<staged, ignore, active, log, remotes, callVars, reads>>

EnvIgnore(p, v) ==
    /\ ignore[p] # v
    /\ ignore' = [ignore EXCEPT ![p] = v]
    /\ fresh' = {}
    /\ UNCHANGED <<working, staged, active, log, remotes, callVars, reads>>

EnvCheckout(b) ==
    /\ active # b
    /\ active' = b
    /\ UNCHANGED <<working, staged, ignore, log, remotes, callVars, readVars>>

----------------------------------------------------------------------------
(* dolt_add *)

\* the engine's DOLT_ADD: moves the table's changes into the staged set
EngineAddStaged(target) ==
    IF target = Dot THEN staged \cup working
    ELSE staged \cup ({target} \cap working)

EngineAddWorking(target) ==
    IF target = Dot THEN {} ELSE working \ {target}

AddStmt(table) == Stmt("CALL DOLT_ADD(%s)", 1, <<table>>)

\* dolt_add: None, or DoltError when execute raised
DoltAddResult(table, reply) ==
    IF reply.kind = "ok" THEN Return(None)
    ELSE Raise("DoltError", FailedToStage \o table \o QuoteColon \o reply.text)

\* what the driver may answer to DOLT_ADD
AddReplies(table) ==
    {Exc(ErrGone)} \cup
    (IF table \in Tables \cup {Dot} THEN {Ok(<<>>)} ELSE {Exc(ErrNoTable)})

\* dolt_add_and_commit going on to dolt_commit whatever dolt_add did
AfterAddIgnoringFailure(name, out) ==
    IF name = "dolt_add_and_commit" THEN "commit" ELSE "idle"

\* dolt_add running its statement again after a failure
AfterAddRetrying(name, out) ==
    IF out.kind = "raise" THEN "add"
    ELSE IF name = "dolt_add_and_commit" THEN "commit" ELSE "idle"

\* dolt_add_and_commit, lines 105-106: dolt_commit runs only when dolt_add returned
AfterAdd(name, out) ==
    IF name = "dolt_add_and_commit" /\ out.kind = "return" THEN "commit" ELSE "idle"

CallAdd(c, table) ==
    /\ Begin(c, [name |-> "dolt_add", table |-> table], "add")

DoltAdd(c) ==
    /\ pc[c] = "add"
    /\ \E reply \in AddReplies(op[c].table) :
        LET out == DoltAddResult(op[c].table, reply) IN
        /\ stmts' = [stmts EXCEPT ![c] = Append(@, AddStmt(op[c].table))]
        /\ obs' = [obs EXCEPT ![c].replies = Append(@, reply),
                              ![c].addWorking = working,
                              ![c].addStaged = staged]
        /\ IF reply.kind = "ok"
           THEN /\ staged' = EngineAddStaged(op[c].table)
                /\ working' = EngineAddWorking(op[c].table)
           ELSE UNCHANGED <<working, staged>>
        /\ IF AfterAdd(op[c].name, out) = "idle"
           THEN Finish(c, out)
           ELSE Proceed(c, AfterAdd(op[c].name, out))
        /\ UNCHANGED <<ignore, active, log, remotes, op, readVars>>

----------------------------------------------------------------------------
(* dolt_commit *)

\* the statement of line 70 whatever allow_empty is
CommitStmtAlwaysAllowEmpty(message, author, allow_empty) ==
    Stmt("CALL DOLT_COMMIT('-m', %s, '--author', %s, '--allow-empty')",
         2, <<message, author>>)

CommitStmt(message, author, allow_empty) ==
    IF allow_empty
    THEN Stmt("CALL DOLT_COMMIT('-m', %s, '--author', %s, '--allow-empty')",
              2, <<message, author>>)
    ELSE Stmt("CALL DOLT_COMMIT('-m', %s, '--author', %s)", 2, <<message, author>>)

\* the test of line 81 without .lower()
IsNothingToCommitCaseSensitive(e) == Contains(e, NothingToCommit)

\* line 81: the driver's text says there was nothing to commit
IsNothingToCommit(e) == Contains(Lower(e), NothingToCommit)

\* dolt_commit: the hash, None, or DoltCommitError
DoltCommitResult(reply) ==
    IF reply.kind = "ok"
    THEN Return(IF FetchOne(reply) # None THEN Some(FetchOne(reply)[1][1]) ELSE None)
    ELSE IF IsNothingToCommit(reply.text) THEN Return(None)
    ELSE Raise("DoltCommitError", FailedToCommit \o reply.text)

\* the hash the engine gives its next commit
NextHash == <<"c">> \o StrNat(Len(log) + 1)

\* the statement carries the engine's --allow-empty flag
AllowsEmpty(stmt) ==
    stmt.sql = "CALL DOLT_COMMIT('-m', %s, '--author', %s, '--allow-empty')"

\* what the driver may answer to DOLT_COMMIT: the engine commits the staged set and
\* answers one row with the hash (the driver may also hand back no row); with nothing
\* staged and no --allow-empty it refuses
CommitReplies(stmt) ==
    {Exc(ErrGone)} \cup
    (IF staged # {} \/ AllowsEmpty(stmt)
     THEN (IF Len(log) < MaxCommits THEN {Ok(<<<<NextHash>>>>), Ok(<<>>)} ELSE {})
     ELSE {Exc(e) : e \in NothingTexts})

CallCommit(c, allow_empty) ==
    /\ Begin(c, [name |-> "dolt_commit", message |-> Message, author |-> DefaultAuthor,
              allow_empty |-> allow_empty], "commit")

\* dolt_add_and_commit handing allow_empty=True to dolt_commit
CallAddAndCommitAllowEmpty(c, table) ==
    /\ Begin(c, [name |-> "dolt_add_and_commit", message |-> Message, table |-> table,
                 author |-> DefaultAuthor, allow_empty |-> TRUE], "add")

CallAddAndCommit(c, table) ==
    /\ Begin(c, [name |-> "dolt_add_and_commit", message |-> Message, table |-> table,
              author |-> DefaultAuthor, allow_empty |-> FALSE], "add")

DoltCommit(c) ==
    /\ pc[c] = "commit"
    /\ \E reply \in CommitReplies(CommitStmt(op[c].message, op[c].author,
                                             op[c].allow_empty)) :
        /\ stmts' = [stmts EXCEPT ![c] =
                Append(@, CommitStmt(op[c].message, op[c].author, op[c].allow_empty))]
        /\ obs' = [obs EXCEPT ![c].replies = Append(@, reply),
                              ![c].commitStaged = staged,
                              ![c].commitRan = TRUE]
        /\ IF reply.kind = "ok"
           THEN /\ log' = <<NextHash>> \o log
                /\ staged' = {}
           ELSE UNCHANGED <<log, staged>>
        /\ Finish(c, DoltCommitResult(reply))
        /\ UNCHANGED <<working, ignore, active, remotes, op, readVars>>

----------------------------------------------------------------------------
(* Rows to dicts *)

Map(f(_), s) == [i \in 1..Len(s) |-> f(s[i])]

Min(a, b) == IF a < b THEN a ELSE b

\* dict(zip(columns, row, strict=False))
DictZip(columns, row) ==
    [k \in {columns[i] : i \in 1..Min(Len(columns), Len(row))} |->
        row[CHOOSE i \in 1..Min(Len(columns), Len(row)) : columns[i] = k]]

\* lines 130-131, 149-150, 178-179, 224-225: one dict per fetched row
RowsToDicts(reply) == Map(LAMBDA row : DictZip(reply.description, row), reply.rows)

\* the read operations have no try: the driver's exception leaves them as it is
Propagate(reply) == Raise(DriverError, reply.text)

----------------------------------------------------------------------------
(* dolt_status *)

StatusColumns == <<"table_name", "staged", "status">>

\* the engine's dolt_status view: staged rows, then working rows
StatusView ==
    Map(LAMBDA t : <<t, 1, "modified">>, SelectSeq(TableOrder, LAMBDA t : t \in staged))
    \o Map(LAMBDA t : <<t, 0, "modified">>, SelectSeq(TableOrder, LAMBDA t : t \in working))

\* the anti-join comparing with = where line 125 has LIKE
NotIgnoredExact(row) ==
    ~ \E p \in Patterns : ignore[p] = "1" /\ row[1] = p

\* lines 122-126: NOT EXISTS (SELECT 1 FROM dolt_ignore i
\*                            WHERE i.ignored = 1 AND s.table_name LIKE i.pattern)
NotIgnored(row) ==
    ~ \E p \in Patterns : ignore[p] = "1" /\ Like(row[1], p)

StatusStmt(exclude_ignored) ==
    IF exclude_ignored
    THEN Stmt("SELECT s.* FROM dolt_status s WHERE NOT EXISTS (...)", 0, <<>>)
    ELSE Stmt("SELECT * FROM dolt_status", 0, <<>>)

\* the rows the engine answers to the statement of dolt_status
StatusRows(exclude_ignored) ==
    IF exclude_ignored THEN SelectSeq(StatusView, NotIgnored) ELSE StatusView

StatusReplies(exclude_ignored) ==
    {Exc(ErrGone), Selected(StatusColumns, StatusRows(exclude_ignored))}

DoltStatusResult(reply) ==
    IF reply.kind = "ok" THEN Return(RowsToDicts(reply)) ELSE Propagate(reply)

CallStatus(c, exclude_ignored) ==
    /\ Begin(c, [name |-> "dolt_status", exclude_ignored |-> exclude_ignored], "status")

\* a read statement that discards the working set
ReadStepClearingWorking(c, stmt, reply, out) ==
    /\ Executed(c, stmt, reply)
    /\ Finish(c, out)
    /\ working' = {}
    /\ UNCHANGED <<staged, ignore, active, log, remotes, op, readVars>>

\* a read statement: the engine is left as it is
ReadStep(c, stmt, reply, out) ==
    /\ Executed(c, stmt, reply)
    /\ Finish(c, out)
    /\ UNCHANGED <<engineVars, op, readVars>>

DoltStatus(c) ==
    /\ pc[c] = "status"
    /\ \E reply \in StatusReplies(op[c].exclude_ignored) :
        ReadStep(c, StatusStmt(op[c].exclude_ignored), reply,
                 DoltStatusResult(reply))

----------------------------------------------------------------------------
(* get_ignored_tables *)

IgnoredStmt == Stmt("SELECT pattern FROM dolt_ignore WHERE ignored = 1", 0, <<>>)

IgnoredRows ==
    Map(LAMBDA p : <<p>>, SelectSeq(PatternOrder, LAMBDA p : ignore[p] = "1"))

IgnoredReplies == {Exc(ErrGone), Ok(IgnoredRows)}

\* [str(row[0]) for row in cursor.fetchall()]
FirstColumn(reply) == Map(LAMBDA row : row[1], reply.rows)

GetIgnoredTablesResult(reply) ==
    IF reply.kind = "ok" THEN Return(FirstColumn(reply)) ELSE Propagate(reply)

CallIgnored(c) ==
    /\ Begin(c, [name |-> "get_ignored_tables"], "ignored")

GetIgnoredTables(c) ==
    /\ pc[c] = "ignored"
    /\ \E reply \in IgnoredReplies :
        ReadStep(c, IgnoredStmt, reply, GetIgnoredTablesResult(reply))

----------------------------------------------------------------------------
(* dolt_log *)

\* largest limit a caller passes
MaxLimit == 2

LogColumns == <<"commit_hash", "committer", "email", "date", "message">>

LogStmt(limit) ==
    Stmt("SELECT commit_hash, committer, email, date, message FROM dolt_log LIMIT %s",
         1, <<limit>>)

\* the engine's dolt_log view, newest first; the date is the commit's ordinal
LogView ==
    [i \in 1..Len(log) |-> <<log[i], "Django", "django@localhost", Len(log) - i + 1, Message>>]

LogRows(limit) == SubSeq(LogView, 1, Min(limit, Len(log)))

LogReplies(limit) == {Exc(ErrGone), Selected(LogColumns, LogRows(limit))}

\* lines 149-150 building the list from the last row to the first
DoltLogResultReversed(reply) ==
    IF reply.kind = "ok"
    THEN Return([i \in 1..Len(reply.rows) |->
                    DictZip(reply.description, reply.rows[Len(reply.rows) - i + 1])])
    ELSE Propagate(reply)

DoltLogResult(reply) ==
    IF reply.kind = "ok" THEN Return(RowsToDicts(reply)) ELSE Propagate(reply)

CallLog(c, limit) ==
    /\ Begin(c, [name |-> "dolt_log", limit |-> limit], "log")

DoltLog(c) ==
    /\ pc[c] = "log"
    /\ \E reply \in LogReplies(op[c].limit) :
        ReadStep(c, LogStmt(op[c].limit), reply, DoltLogResult(reply))

----------------------------------------------------------------------------
(* dolt_diff *)

RefHead == <<"H","E","A","D">>
RefWorking == <<"W","O","R","K","I","N","G">>

\* line 169: `if table:` is false for None and for the empty string
Truthy(opt) == opt # None /\ opt[1] # <<>>

\* lines 170-177: the table form splices the three values into the text, the
\* summary form passes the two refs as arguments
DiffStmt(from_ref, to_ref, table) ==
    IF Truthy(table)
    THEN [sql |-> "SELECT * FROM dolt_diff('{from_ref}', '{to_ref}', '{table}')",
          placeholders |-> 0, args |-> <<>>, spliced |-> <<from_ref, to_ref, table[1]>>]
    ELSE Stmt("SELECT * FROM dolt_diff_summary(%s, %s)", 2, <<from_ref, to_ref>>)

DiffColumns == <<"table_name", "diff_type">>

\* the engine's diff of HEAD against WORKING: one row per changed table
DiffRows(table) ==
    Map(LAMBDA t : <<t, "modified">>,
        SelectSeq(TableOrder,
                  LAMBDA t : t \in working \cup staged /\ (Truthy(table) => t = table[1])))

DiffReplies(table) == {Exc(ErrGone), Selected(DiffColumns, DiffRows(table))}

DoltDiffResult(reply) ==
    IF reply.kind = "ok" THEN Return(RowsToDicts(reply)) ELSE Propagate(reply)

CallDiff(c, table) ==
    /\ Begin(c, [name |-> "dolt_diff", from_ref |-> RefHead, to_ref |-> RefWorking,
              table |-> table], "diff")

DoltDiff(c) ==
    /\ pc[c] = "diff"
    /\ \E reply \in DiffReplies(op[c].table) :
        ReadStep(c, DiffStmt(op[c].from_ref, op[c].to_ref, op[c].table), reply,
                 DoltDiffResult(reply))

----------------------------------------------------------------------------
(* dolt_branch_list, dolt_remotes *)

BranchOrder == <<Main, Dev>>
BranchListStmt == Stmt("SELECT name FROM dolt_branches", 0, <<>>)
BranchListReplies == {Exc(ErrGone), Ok(Map(LAMBDA b : <<b>>, BranchOrder))}

DoltBranchListResult(reply) ==
    IF reply.kind = "ok" THEN Return(FirstColumn(reply)) ELSE Propagate(reply)

CallBranchList(c) ==
    /\ Begin(c, [name |-> "dolt_branch_list"], "branch_list")

DoltBranchList(c) ==
    /\ pc[c] = "branch_list"
    /\ \E reply \in BranchListReplies :
        ReadStep(c, BranchListStmt, reply, DoltBranchListResult(reply))

RemoteOrder == <<Origin, Backup>>
RemoteColumns == <<"name", "url">>
RemotesStmt == Stmt("SELECT * FROM dolt_remotes", 0, <<>>)
RemotesReplies ==
    {Exc(ErrGone),
     Selected(RemoteColumns,
              Map(LAMBDA r : <<r, Url>>, SelectSeq(RemoteOrder, LAMBDA r : r \in remotes)))}

DoltRemotesResult(reply) ==
    IF reply.kind = "ok" THEN Return(RowsToDicts(reply)) ELSE Propagate(reply)

CallRemotes(c) ==
    /\ Begin(c, [name |-> "dolt_remotes"], "remotes")

DoltRemotes(c) ==
    /\ pc[c] = "remotes"
    /\ \E reply \in RemotesReplies :
        ReadStep(c, RemotesStmt, reply, DoltRemotesResult(reply))

----------------------------------------------------------------------------
(* dolt_current_branch *)

CurrentBranchStmt == Stmt("SELECT active_branch()", 0, <<>>)

\* the engine answers the checked-out branch; the driver may hand back no row
CurrentBranchReplies == {Exc(ErrGone), Ok(<<<<active>>>>), Ok(<<>>)}

\* line 202 answering "main" whatever the row
DoltCurrentBranchResultAlwaysMain(reply) ==
    IF reply.kind = "ok" THEN Return(Main) ELSE Propagate(reply)

\* line 202: str(result[0]) if result else "main"
DoltCurrentBranchResult(reply) ==
    IF reply.kind = "ok"
    THEN Return(IF FetchOne(reply) # None THEN FetchOne(reply)[1][1] ELSE Main)
    ELSE Propagate(reply)

CallCurrentBranch(c) ==
    /\ Begin(c, [name |-> "dolt_current_branch"], "current_branch")

\* lines 308-311: inside dolt_pull the call stands before the try, so its value
\* becomes `branch` and its exception leaves dolt_pull as it is
AfterCurrentBranch(name, out) ==
    IF name = "dolt_pull" /\ out.kind = "return" THEN "pull" ELSE "idle"

DoltCurrentBranch(c) ==
    /\ pc[c] = "current_branch"
    /\ \E reply \in CurrentBranchReplies :
        LET out == DoltCurrentBranchResult(reply) IN
        /\ stmts' = [stmts EXCEPT ![c] = Append(@, CurrentBranchStmt)]
        /\ IF AfterCurrentBranch(op[c].name, out) = "idle"
           THEN /\ Finish(c, out)
                /\ obs' = [obs EXCEPT ![c].replies = Append(@, reply)]
           ELSE /\ Proceed(c, AfterCurrentBranch(op[c].name, out))
                /\ obs' = [obs EXCEPT ![c].replies = Append(@, reply),
                                      ![c].branch = Some(out.value)]
        /\ UNCHANGED <<engineVars, op, readVars>>

----------------------------------------------------------------------------
(* dolt_pull *)

ErrNoRemote == <<"r","e","m","o","t","e"," ","n","o","t"," ","f","o","u","n","d">>

PullStmt(remote, branch) == Stmt("CALL DOLT_PULL(%s, %s)", 2, <<remote, branch>>)

\* the rows DOLT_PULL may answer: (fast_forward, conflicts, message), older
\* engines fewer columns
PullRows ==
    {<<0>>, <<1>>, <<0, 0>>, <<1, 0>>, <<0, 3>>, <<1, 12>>, <<1, 0, Message>>}

PullReplies(remote) ==
    {Exc(ErrGone)} \cup
    (IF remote \in remotes
     THEN {Ok(<<>>)} \cup {Ok(<<row>>) : row \in PullRows}
     ELSE {Exc(ErrNoRemote)})

\* lines 316-324 with the fast-forward test before the conflict test
PullMessageFastForwardFirst(result) ==
    IF result # None
    THEN LET fast_forward == result[1][1]
             conflicts == IF Len(result[1]) > 1 THEN result[1][2] ELSE 0
         IN  IF fast_forward # 0 THEN FastForwardMsg
             ELSE IF conflicts # 0 THEN PulledWith \o StrNat(conflicts) \o Conflicts
             ELSE UpToDateMsg
    ELSE PullCompletedMsg

\* lines 316-324 answering "Already up to date" when there is no row
PullMessageNoRowUpToDate(result) ==
    IF result # None
    THEN LET fast_forward == result[1][1]
             conflicts == IF Len(result[1]) > 1 THEN result[1][2] ELSE 0
         IN  IF conflicts # 0 THEN PulledWith \o StrNat(conflicts) \o Conflicts
             ELSE IF fast_forward # 0 THEN FastForwardMsg
             ELSE UpToDateMsg
    ELSE UpToDateMsg

\* lines 316-324
PullMessage(result) ==
    IF result # None
    THEN LET fast_forward == result[1][1]
             conflicts == IF Len(result[1]) > 1 THEN result[1][2] ELSE 0
         IN  IF conflicts # 0 THEN PulledWith \o StrNat(conflicts) \o Conflicts
             ELSE IF fast_forward # 0 THEN FastForwardMsg
             ELSE UpToDateMsg
    ELSE PullCompletedMsg

DoltPullResult(reply) ==
    IF reply.kind = "ok" THEN Return(PullMessage(FetchOne(reply)))
    ELSE Raise("DoltPullError", PullFailed \o reply.text)

\* line 308 written `if not branch:`, an empty branch also resolved by the query
CallPullQueryingWhenEmpty(c, remote, branch) ==
    /\ Begin(c, [name |-> "dolt_pull", remote |-> remote, branch |-> branch],
             IF branch = None \/ branch[1] = <<>> THEN "current_branch" ELSE "pull")

\* lines 308-309: a branch that is None is resolved by dolt_current_branch()
CallPull(c, remote, branch) ==
    /\ Begin(c, [name |-> "dolt_pull", remote |-> remote, branch |-> branch],
             IF branch = None THEN "current_branch" ELSE "pull")

\* the local `branch` when the pull statement is built
PullBranch(c) == IF op[c].branch = None THEN obs[c].branch[1] ELSE op[c].branch[1]

DoltPull(c) ==
    /\ pc[c] = "pull"
    /\ \E reply \in PullReplies(op[c].remote) :
        /\ Executed(c, PullStmt(op[c].remote, PullBranch(c)), reply)
        /\ Finish(c, DoltPullResult(reply))
        /\ UNCHANGED <<engineVars, op, readVars>>

----------------------------------------------------------------------------
(* dolt_push *)

DashUser == <<"-","-","u","s","e","r">>
DashForce == <<"-","-","f","o","r","c","e">>
Bob == <<"b","o","b">>
Eve == <<"e","v","e">>

\* line 265 written `if not user:`, an empty user also giving way to the environment
EffectiveUserEnvWhenEmpty(user, environ) ==
    IF user = None \/ user[1] = <<>>
    THEN (IF environ = None THEN <<>> ELSE environ[1])
    ELSE user[1]

\* lines 265-266: os.environ.get("DOLT_REMOTE_USER", "") when user is None
EffectiveUser(user, environ) ==
    IF user = None THEN (IF environ = None THEN <<>> ELSE environ[1]) ELSE user[1]

\* lines 270-275 with --force appended before --user
PushArgsForceFirst(user, force, remote, branch) ==
    (IF force THEN <<DashForce>> ELSE <<>>)
    \o (IF user # <<>> THEN <<DashUser, user>> ELSE <<>>)
    \o <<remote, branch>>

\* lines 270-275
PushArgs(user, force, remote, branch) ==
    (IF user # <<>> THEN <<DashUser, user>> ELSE <<>>)
    \o (IF force THEN <<DashForce>> ELSE <<>>)
    \o <<remote, branch>>

\* lines 277-278: one %s per argument
PushStmt(push_args) == Stmt("CALL DOLT_PUSH({placeholders})", Len(push_args), push_args)

PushReplies(remote) ==
    {Exc(ErrGone), Exc(ErrPassword)} \cup
    (IF remote \in remotes THEN {Ok(<<>>)} ELSE {Exc(ErrNoRemote)})

\* lines 283-289 taking the branch of line 284 for every exception
DoltPushResultAlwaysNote(remote, branch, reply) ==
    IF reply.kind = "ok" THEN Return(Pushed \o branch \o To \o remote)
    ELSE Raise("DoltPushError", PushFailed \o reply.text \o PushNote)

\* lines 280-289
DoltPushResult(remote, branch, reply) ==
    IF reply.kind = "ok" THEN Return(Pushed \o branch \o To \o remote)
    ELSE IF Contains(reply.text, PasswordMarker)
         THEN Raise("DoltPushError", PushFailed \o reply.text \o PushNote)
    ELSE Raise("DoltPushError", PushFailed \o reply.text)

CallPush(c, remote, branch, force, user, environ) ==
    /\ Begin(c, [name |-> "dolt_push", remote |-> remote, branch |-> branch,
              force |-> force, user |-> user, env_user |-> environ], "push")

DoltPush(c) ==
    /\ pc[c] = "push"
    /\ \E reply \in PushReplies(op[c].remote) :
        /\ Executed(c, PushStmt(PushArgs(EffectiveUser(op[c].user, op[c].env_user),
                                         op[c].force, op[c].remote, op[c].branch)),
                    reply)
        /\ Finish(c, DoltPushResult(op[c].remote, op[c].branch, reply))
        /\ UNCHANGED <<engineVars, op, readVars>>

----------------------------------------------------------------------------
(* dolt_add_remote, dolt_fetch *)

AddRemoteStmt(name, url) == Stmt("CALL DOLT_REMOTE('add', %s, %s)", 2, <<name, url>>)

AddRemoteReplies(name) ==
    {Exc(ErrGone)} \cup (IF name \in remotes THEN {Exc(ErrExists)} ELSE {Ok(<<>>)})

DoltAddRemoteResult(name, reply) ==
    IF reply.kind = "ok" THEN Return(None)
    ELSE Raise("DoltError", FailedToAddRemote \o name \o QuoteColon \o reply.text)

CallAddRemote(c, name) ==
    /\ Begin(c, [name |-> "dolt_add_remote", remote |-> name, url |-> Url], "add_remote")

DoltAddRemote(c) ==
    /\ pc[c] = "add_remote"
    /\ \E reply \in AddRemoteReplies(op[c].remote) :
        /\ Executed(c, AddRemoteStmt(op[c].remote, op[c].url), reply)
        /\ Finish(c, DoltAddRemoteResult(op[c].remote, reply))
        /\ remotes' = IF reply.kind = "ok" THEN remotes \cup {op[c].remote} ELSE remotes
        /\ UNCHANGED <<working, staged, ignore, active, log, op, readVars>>

FetchStmt(remote) == Stmt("CALL DOLT_FETCH(%s)", 1, <<remote>>)

FetchReplies(remote) ==
    {Exc(ErrGone)} \cup (IF remote \in remotes THEN {Ok(<<>>)} ELSE {Exc(ErrNoRemote)})

\* line 346 without the driver's text
DoltFetchResultNoText(remote, reply) ==
    IF reply.kind = "ok" THEN Return(FetchedFrom \o remote)
    ELSE Raise("DoltError", FetchFailed)

DoltFetchResult(remote, reply) ==
    IF reply.kind = "ok" THEN Return(FetchedFrom \o remote)
    ELSE Raise("DoltError", FetchFailed \o reply.text)

CallFetch(c, remote) ==
    /\ Begin(c, [name |-> "dolt_fetch", remote |-> remote], "fetch")

DoltFetch(c) ==
    /\ pc[c] = "fetch"
    /\ \E reply \in FetchReplies(op[c].remote) :
        /\ Executed(c, FetchStmt(op[c].remote), reply)
        /\ Finish(c, DoltFetchResult(op[c].remote, reply))
        /\ UNCHANGED <<engineVars, op, readVars>>

----------------------------------------------------------------------------
(* The facade used by one caller, beside other sessions of the engine *)

MainCaller == "c1"

Users == {None, Some(<<>>), Some(Bob)}
Environs == {None, Some(<<>>), Some(Eve)}

Next ==
    \/ \E t \in Tables : EnvModify(t)
    \/ \E b \in Branches : EnvCheckout(b)
    \/ \E t \in StageTargets : CallAdd(MainCaller, t)
    \/ \E e \in BOOLEAN : CallCommit(MainCaller, e)
    \/ \E t \in StageTargets : CallAddAndCommit(MainCaller, t)
    \/ \E x \in BOOLEAN : CallStatus(MainCaller, x)
    \/ CallIgnored(MainCaller)
    \/ \E n \in 0..MaxLimit : CallLog(MainCaller, n)
    \/ \E t \in {None, Some(<<>>), Some(TableA)} : CallDiff(MainCaller, t)
    \/ CallBranchList(MainCaller)
    \/ CallRemotes(MainCaller)
    \/ CallCurrentBranch(MainCaller)
    \/ \E r \in RemoteNames, b \in {None, Some(<<>>)} \cup {Some(x) : x \in Branches} :
          CallPull(MainCaller, r, b)
    \/ \E r \in RemoteNames, b \in Branches, f \in BOOLEAN, u \in Users, e \in Environs :
          CallPush(MainCaller, r, b, f, u, e)
    \/ \E r \in RemoteNames : CallAddRemote(MainCaller, r)
    \/ \E r \in RemoteNames : CallFetch(MainCaller, r)
    \/ DoltAdd(MainCaller)
    \/ DoltCommit(MainCaller)
    \/ DoltStatus(MainCaller)
    \/ GetIgnoredTables(MainCaller)
    \/ DoltLog(MainCaller)
    \/ DoltDiff(MainCaller)
    \/ DoltBranchList(MainCaller)
    \/ DoltRemotes(MainCaller)
    \/ DoltCurrentBranch(MainCaller)
    \/ DoltPull(MainCaller)
    \/ DoltPush(MainCaller)
    \/ DoltAddRemote(MainCaller)
    \/ DoltFetch(MainCaller)

Spec == Init /\ [][Next]_vars

----------------------------------------------------------------------------
(* status(True), status(False) and ignored_tables() called one after another
   while other sessions edit rows and dolt_ignore *)

\* another session discards its edits of a table
EnvRevert(t) ==
    /\ t \in working
    /\ working' = working \ {t}
    /\ fresh' = {}
    /\ UNCHANGED <<staged, ignore, active, log, remotes, callVars, reads>>

\* dolt_status(exclude_ignored) as a whole, its result kept
StatusCall(exclude_ignored) ==
    LET out == DoltStatusResult(Selected(StatusColumns, StatusRows(exclude_ignored))) IN
    /\ reads' = IF exclude_ignored
                THEN [reads EXCEPT !.filtered = Some(out.value)]
                ELSE [reads EXCEPT !.unfiltered = Some(out.value)]
    /\ fresh' = fresh \cup {IF exclude_ignored THEN "filtered" ELSE "unfiltered"}
    /\ UNCHANGED <<engineVars, callVars>>

\* get_ignored_tables() as a whole, its result kept
IgnoredCall ==
    LET out == GetIgnoredTablesResult(Ok(IgnoredRows)) IN
    /\ reads' = [reads EXCEPT !.ignored = Some(out.value)]
    /\ fresh' = fresh \cup {"ignored"}
    /\ UNCHANGED <<engineVars, callVars>>

NextReads ==
    \/ \E t \in Tables : EnvModify(t)
    \/ \E t \in Tables : EnvRevert(t)
    \/ \E p \in Patterns, v \in {"absent", "0", "1"} : EnvIgnore(p, v)
    \/ \E x \in BOOLEAN : StatusCall(x)
    \/ IgnoredCall

SpecReads == Init /\ [][NextReads]_vars

----------------------------------------------------------------------------
(* Properties *)

\* caller c has finished an invocation of the operation
Done(c, name) == pc[c] = "idle" /\ op[c].name = name /\ ret[c].kind # "none"

\* the driver's answer to the last statement of c's invocation
LastReply(c) == obs[c].replies[Len(obs[c].replies)]

Range(s) == {s[i] : i \in 1..Len(s)}

\* the operations that run dolt_commit
Committing == {"dolt_commit", "dolt_add_and_commit"}

\* C1: dolt_commit returns None when the driver's exception says "nothing to
\* commit" in any letter case, and raises DoltCommitError with the driver's text
\* for every other driver exception, whatever allow_empty is.
C1_CommitClassifiesDriverErrors ==
    \A c \in Callers :
        (Done(c, "dolt_commit") /\ LastReply(c).kind = "exc") =>
            IF LastReply(c).text \in NothingTexts
            THEN ret[c] = Return(None)
            ELSE ret[c] = Raise("DoltCommitError", FailedToCommit \o LastReply(c).text)

C1_Witness ==
    \E c \in Callers :
        /\ Done(c, "dolt_commit")
        /\ LastReply(c) = Exc(ErrNothingUpper)
        /\ ret[c] = Return(None)

\* the staged set DOLT_COMMIT found was non-empty exactly when dolt_add's table
\* had working changes or something was staged before
StagedByAdd(c) ==
    obs[c].addStaged \cup
        (IF op[c].table = Dot THEN obs[c].addWorking ELSE {op[c].table} \cap obs[c].addWorking)

\* the table of dolt_add_and_commit had changes, staged or not, when it was staged
HadChanges(c) == op[c].table \in obs[c].addWorking \cup obs[c].addStaged

\* the driver answered DOLT_COMMIT with a row or with an exception
Answered(c) == LastReply(c).kind = "exc" \/ LastReply(c).rows # <<>>

\* C2 as stated: stage(t) then commit(m) returns a hash exactly when t had changes
\* and None exactly when it had none.
C2_HashIffTableHadChanges ==
    \A c \in Callers :
        (/\ Done(c, "dolt_add_and_commit")
         /\ op[c].table \in Tables
         /\ ret[c].kind = "return"
         /\ Answered(c))
        => (ret[c].value # None <=> HadChanges(c))

\* C2 amended: stage(t) then commit(m), when it returns, returns a new non-empty
\* hash only if the staged set was non-empty after staging (t had working changes or
\* changes were already staged), returns None whenever that set was empty, and
\* returns the hash whenever it was non-empty and the engine answered its row.
C2_HashIffStagedAfterAdd ==
    \A c \in Callers :
        (Done(c, "dolt_add_and_commit") /\ ret[c].kind = "return") =>
            /\ obs[c].commitStaged = StagedByAdd(c)
            /\ ret[c].value # None =>
                  /\ StagedByAdd(c) # {}
                  /\ ret[c].value[1] # <<>>
                  /\ ret[c].value[1] = log[1]
                  /\ \A i \in 2..Len(log) : log[i] # log[1]
            /\ StagedByAdd(c) = {} => ret[c].value = None
            /\ (StagedByAdd(c) # {} /\ Answered(c)) => ret[c].value # None

\* a hash comes back although the table staged had no changes
C2_Witness ==
    \E c \in Callers :
        /\ Done(c, "dolt_add_and_commit")
        /\ op[c].table \in Tables
        /\ ~ HadChanges(c)
        /\ ret[c].kind = "return"
        /\ ret[c].value # None

\* C3 as stated: a commit returns a hash only if the staged set was non-empty when
\* the statement ran, and with an empty staged set it yields None for every
\* allow_empty (a lost connection aside).
C3_HashOnlyIfStaged ==
    \A c \in Callers :
        (/\ pc[c] = "idle"
         /\ op[c].name \in Committing
         /\ obs[c].commitRan
         /\ LastReply(c) # Exc(ErrGone))
        => /\ (ret[c].kind = "return" /\ ret[c].value # None) => obs[c].commitStaged # {}
           /\ obs[c].commitStaged = {} => ret[c] = Return(None)

\* C3 amended: a commit returns a hash only if the staged set was non-empty when the
\* statement ran or allow_empty was true; with allow_empty false an empty staged
\* set yields None and no error (a lost connection aside); with allow_empty true
\* an empty staged set yields a new commit, a hash or no row but never an error.
C3_HashOnlyIfStagedOrAllowEmpty ==
    \A c \in Callers :
        (/\ pc[c] = "idle"
         /\ op[c].name \in Committing
         /\ obs[c].commitRan)
        => /\ (ret[c].kind = "return" /\ ret[c].value # None) =>
                  /\ obs[c].commitStaged # {} \/ op[c].allow_empty
                  /\ ret[c].value[1] # <<>>
           /\ (obs[c].commitStaged = {} /\ LastReply(c) # Exc(ErrGone)) =>
                  /\ ret[c].kind = "return"
                  /\ ~ op[c].allow_empty => ret[c].value = None

\* allow_empty=True commits an empty staged set and returns the hash
C3_Witness ==
    \E c \in Callers :
        /\ Done(c, "dolt_commit")
        /\ op[c].allow_empty
        /\ obs[c].commitStaged = {}
        /\ ret[c].kind = "return"
        /\ ret[c].value # None

\* the table names of a status result
TableNames(rows) == {rows[i]["table_name"] : i \in 1..Len(rows)}

\* the filtered result is within the unfiltered one and matches no returned pattern
FilterAgrees ==
    /\ Range(reads.filtered[1]) \subseteq Range(reads.unfiltered[1])
    /\ \A t \in TableNames(reads.filtered[1]), p \in Range(reads.ignored[1]) : ~ Like(t, p)

AllRead == reads.filtered # None /\ reads.unfiltered # None /\ reads.ignored # None

\* C4 as stated: the results of status(True), status(False) and ignored_tables()
\* agree also when other sessions change the working set or dolt_ignore between
\* the calls.
C4_FilterAgreesAcrossChanges == AllRead => FilterAgrees

\* C4 amended: when the three calls see the same engine state, status(True) is a
\* subset of status(False) and none of its rows matches a pattern of
\* ignored_tables(); with changes between the calls neither need hold.
C4_FilterAgreesOnOneState ==
    fresh = {"filtered", "unfiltered", "ignored"} => FilterAgrees

\* the filter removed a row and kept one
C4_Witness ==
    /\ fresh = {"filtered", "unfiltered", "ignored"}
    /\ reads.filtered[1] # <<>>
    /\ reads.filtered[1] # reads.unfiltered[1]
    /\ reads.ignored[1] # <<>>

\* the decimal text of the conflict counts the engine answers
ConflictText == (3 :> <<"3">>) @@ (12 :> <<"1","2">>)

\* C5: a pull row with a nonzero conflict count gives "Pulled with N conflicts",
\* whatever the fast-forward flag.
C5_ConflictsTakePrecedence ==
    \A c \in Callers :
        (/\ Done(c, "dolt_pull")
         /\ LastReply(c).kind = "ok"
         /\ LastReply(c).rows # <<>>
         /\ Len(LastReply(c).rows[1]) > 1
         /\ LastReply(c).rows[1][2] # 0)
        => ret[c] = Return(PulledWith \o ConflictText[LastReply(c).rows[1][2]] \o Conflicts)

\* fast_forward = 1 with 12 conflicts
C5_Witness ==
    \E c \in Callers :
        /\ Done(c, "dolt_pull")
        /\ LastReply(c) = Ok(<<<<1, 12>>>>)
        /\ ret[c].kind = "return"

\* C6: dolt_current_branch returns "main" when the engine yields no row and the
\* engine's value when it yields one.
C6_CurrentBranchFallback ==
    \A c \in Callers :
        (Done(c, "dolt_current_branch") /\ LastReply(c).kind = "ok") =>
            IF LastReply(c).rows = <<>>
            THEN ret[c] = Return(Main)
            ELSE ret[c] = Return(LastReply(c).rows[1][1])

\* the engine named another branch and it came back
C6_Witness ==
    \E c \in Callers :
        /\ Done(c, "dolt_current_branch")
        /\ LastReply(c) = Ok(<<<<Dev>>>>)
        /\ ret[c] = Return(Dev)

\* the user name dolt_push works with
UserInEffect(c) ==
    IF op[c].user # None THEN op[c].user[1]
    ELSE IF op[c].env_user # None THEN op[c].env_user[1]
    ELSE <<>>

\* C7: dolt_push issues one DOLT_PUSH call whose arguments are --user and the
\* user (when a non-empty user is in effect), --force (when force), remote,
\* branch, in this order, with one placeholder per argument, and on success
\* returns "Pushed <branch> to <remote>".
C7_PushArguments ==
    \A c \in Callers :
        Done(c, "dolt_push") =>
            /\ Len(stmts[c]) = 1
            /\ stmts[c][1].sql = "CALL DOLT_PUSH({placeholders})"
            /\ stmts[c][1].args =
                  (IF UserInEffect(c) # <<>> THEN <<DashUser, UserInEffect(c)>> ELSE <<>>)
                  \o (IF op[c].force THEN <<DashForce>> ELSE <<>>)
                  \o <<op[c].remote, op[c].branch>>
            /\ stmts[c][1].placeholders = Len(stmts[c][1].args)
            /\ LastReply(c).kind = "ok" =>
                  ret[c] = Return(Pushed \o op[c].branch \o To \o op[c].remote)

\* a forced push with a user from the environment
C7_Witness ==
    \E c \in Callers :
        /\ Done(c, "dolt_push")
        /\ op[c].force
        /\ op[c].user = None
        /\ stmts[c][1].args = <<DashUser, Eve, DashForce, Origin, Dev>>
        /\ ret[c].kind = "return"

\* C8: in dolt_add_and_commit a failed stage statement ends the invocation with
\* the staging error and no commit statement; the commit statement is issued
\* only after the stage statement returned.
C8_NoCommitAfterFailedStage ==
    \A c \in Callers :
        op[c].name = "dolt_add_and_commit" =>
            /\ (pc[c] = "commit" \/ obs[c].commitRan) =>
                  /\ Len(obs[c].replies) >= 1
                  /\ obs[c].replies[1].kind = "ok"
                  /\ stmts[c][1] = AddStmt(op[c].table)
            /\ (Len(obs[c].replies) >= 1 /\ obs[c].replies[1].kind = "exc") =>
                  /\ pc[c] = "idle"
                  /\ Len(stmts[c]) = 1
                  /\ ret[c] = Raise("DoltError", FailedToStage \o op[c].table \o QuoteColon
                                                  \o obs[c].replies[1].text)

C8_Witness ==
    \E c \in Callers :
        /\ Done(c, "dolt_add_and_commit")
        /\ obs[c].replies[1] = Exc(ErrNoTable)
        /\ ret[c].kind = "raise"

\* C9 as stated: every driver exception met by dolt_pull, the one of the
\* current-branch query included, comes out as DoltPullError.
C9_PullErrorsAreTyped ==
    \A c \in Callers :
        (Done(c, "dolt_pull") /\ \E i \in 1..Len(obs[c].replies) : obs[c].replies[i].kind = "exc")
        => (ret[c].kind = "raise" /\ ret[c].type = "DoltPullError")

\* operations whose statement stands inside try/except
Wrapping ==
    [dolt_add |-> "DoltError", dolt_add_and_commit |-> "DoltError",
     dolt_add_remote |-> "DoltError", dolt_fetch |-> "DoltError",
     dolt_push |-> "DoltPushError"]

\* operations whose statement stands outside any try
Unwrapped ==
    {"dolt_status", "dolt_log", "dolt_diff", "dolt_branch_list", "dolt_current_branch",
     "get_ignored_tables", "dolt_remotes"}

\* c's invocation ended on a driver exception that is not "nothing to commit"
FailedOnDriver(c) ==
    /\ pc[c] = "idle"
    /\ ret[c].kind # "none"
    /\ LastReply(c).kind = "exc"
    /\ LastReply(c).text \notin NothingTexts

C11_CursorsReleased ==
    \A c \in Callers :
        /\ cursors[c] <= 1
        /\ cursors[c] = IF pc[c] = "idle" THEN 0 ELSE 1

\* dolt_pull with the branch omitted ran both statements, the second raised, and
\* no cursor is left open
C11_Witness ==
    \E c \in Callers :
        /\ Done(c, "dolt_pull")
        /\ op[c].branch = None
        /\ Len(stmts[c]) = 2
        /\ LastReply(c).kind = "exc"
        /\ cursors[c] = 0

\* C12: no operation retries: within one invocation no statement is issued twice,
\* and a statement that fails is the last one, the invocation ending at once with
\* an error or, for commit with "nothing to commit", with None.
C12_NoRetry ==
    \A c \in Callers :
        /\ Len(stmts[c]) = Len(obs[c].replies)
        /\ \A i, j \in 1..Len(stmts[c]) : i # j => stmts[c][i].sql # stmts[c][j].sql
        /\ \A i \in 1..Len(obs[c].replies) :
              obs[c].replies[i].kind = "exc" =>
                  /\ i = Len(obs[c].replies)
                  /\ pc[c] = "idle"
                  /\ \/ ret[c].kind = "raise"
                     \/ /\ obs[c].commitRan
                        /\ obs[c].replies[i].text \in NothingTexts
                        /\ ret[c] = Return(None)

\* dolt_push failed on its one statement and raised
C12_Witness ==
    \E c \in Callers :
        /\ Done(c, "dolt_push")
        /\ Len(stmts[c]) = 1
        /\ LastReply(c) = Exc(ErrGone)
        /\ ret[c].kind = "raise"

\* C13: every driver exception of the push call comes out as DoltPushError whose
\* message contains the driver's text, and the note about DOLT_REMOTE_PASSWORD is
\* appended exactly when that text contains "DOLT_REMOTE_PASSWORD".
C13_PushErrorNote ==
    \A c \in Callers :
        (Done(c, "dolt_push") /\ LastReply(c).kind = "exc") =>
            /\ ret[c].kind = "raise"
            /\ ret[c].type = "DoltPushError"
            /\ Contains(ret[c].msg, LastReply(c).text)
            /\ Contains(ret[c].msg, PushNote) <=> Contains(LastReply(c).text, PasswordMarker)

\* the driver's text named DOLT_REMOTE_PASSWORD and the note follows it
C13_Witness ==
    \E c \in Callers :
        /\ Done(c, "dolt_push")
        /\ LastReply(c) = Exc(ErrPassword)
        /\ ret[c] = Raise("DoltPushError", PushFailed \o ErrPassword \o PushNote)

\* C14: log(limit=N) passes N to the engine and returns at most N records: the N
\* most recent commits of the engine's history view (all of them when there are
\* fewer), newest first.
C14_LogNewestFirst ==
    \A c \in Callers :
        (Done(c, "dolt_log") /\ ret[c].kind = "return") =>
            LET rows == ret[c].value IN
            /\ stmts[c][1].args = <<op[c].limit>>
            /\ Len(rows) <= op[c].limit
            /\ Len(rows) = Min(op[c].limit, Len(log))
            /\ \A i \in 1..Len(rows) : rows[i]["commit_hash"] = log[i]
            /\ \A i \in 1..(Len(rows) - 1) : rows[i]["date"] > rows[i + 1]["date"]

\* the history is longer than the limit and only the newest commit comes back
C14_Witness ==
    \E c \in Callers :
        /\ Done(c, "dolt_log")
        /\ op[c].limit = 1
        /\ Len(log) = 2
        /\ ret[c].kind = "return"
        /\ Len(ret[c].value) = 1
        /\ ret[c].value[1]["commit_hash"] = log[1]

\* what a read operation returns, from its arguments and the engine's state alone
\* (for dolt_current_branch also whether the driver handed back a row)
ReadValue(o, reply) ==
    CASE o.name = "dolt_status" ->
            RowsToDicts(Selected(StatusColumns, StatusRows(o.exclude_ignored)))
      [] o.name = "dolt_log" -> RowsToDicts(Selected(LogColumns, LogRows(o.limit)))
      [] o.name = "dolt_diff" -> RowsToDicts(Selected(DiffColumns, DiffRows(o.table)))
      [] o.name = "dolt_branch_list" -> BranchOrder
      [] o.name = "dolt_current_branch" -> IF reply.rows = <<>> THEN Main ELSE active
      [] o.name = "get_ignored_tables" -> SelectSeq(PatternOrder, LAMBDA p : ignore[p] = "1")
      [] o.name = "dolt_remotes" ->
            Map(LAMBDA r : [name |-> r, url |-> Url],
                SelectSeq(RemoteOrder, LAMBDA r : r \in remotes))

\* caller c's read operation comes to its end in this step
ReadFinishes(c) == pc[c] # "idle" /\ pc'[c] = "idle" /\ op[c].name \in Unwrapped

C17_EnvUserOnlyWhenOmitted ==
    \A c \in Callers :
        Done(c, "dolt_push") =>
            LET args == stmts[c][1].args
                hasUser == \E i \in 1..Len(args) : args[i] = DashUser
                env == IF op[c].env_user = None THEN <<>> ELSE op[c].env_user[1]
            IN  /\ hasUser => args[1] = DashUser
                /\ op[c].user # None =>
                      /\ hasUser <=> op[c].user[1] # <<>>
                      /\ hasUser => args[2] = op[c].user[1]
                /\ op[c].user = None =>
                      /\ hasUser <=> env # <<>>
                      /\ hasUser => args[2] = env

\* the caller passed the empty user while the environment names one: no --user
C17_Witness ==
    \E c \in Callers :
        /\ Done(c, "dolt_push")
        /\ op[c].user = Some(<<>>)
        /\ op[c].env_user = Some(Eve)
        /\ stmts[c][1].args = <<op[c].remote, op[c].branch>>

\* C20: dolt_pull maps every engine result to one message: no row gives "Pull
\* completed"; a row with nonzero conflicts "Pulled with N conflicts"; otherwise a
\* row with a truthy fast-forward flag "Fast-forward pull successful"; otherwise
\* "Already up to date"; a one-column row counts as zero conflicts.
C20_PullMessageOfEveryRow ==
    \A c \in Callers :
        (Done(c, "dolt_pull") /\ LastReply(c).kind = "ok") =>
            LET rows == LastReply(c).rows IN
            /\ ret[c] = Return(
                  IF rows = <<>> THEN PullCompletedMsg
                  ELSE IF Len(rows[1]) > 1 /\ rows[1][2] # 0
                       THEN PulledWith \o ConflictText[rows[1][2]] \o Conflicts
                  ELSE IF rows[1][1] # 0 THEN FastForwardMsg
                  ELSE UpToDateMsg)
            /\ rows = <<<<1, 0>>>> => ret[c].value = FastForwardMsg
            /\ rows = <<<<0, 3>>>> => ret[c].value = PulledWith \o <<"3">> \o Conflicts
            /\ rows = <<<<1>>>> => ret[c].value = FastForwardMsg

\* the engine answered no row and the message is "Pull completed"
C20_Witness ==
    \E c \in Callers :
        /\ Done(c, "dolt_pull")
        /\ LastReply(c) = Ok(<<>>)
        /\ ret[c] = Return(PullCompletedMsg)

----------------------------------------------------------------------------
(* Two callers, each on its own connection, inside the facade at the same time *)

\* the caller beside MainCaller
OtherCaller == "c2"

\* MainCaller runs the two-statement operations, OtherCaller stages and commits
NextConcurrent ==
    \/ \E t \in Tables : EnvModify(t)
    \/ CallAddAndCommit(MainCaller, TableA)
    \/ CallPull(MainCaller, Origin, None)
    \/ \E t \in Tables : CallAdd(OtherCaller, t)
    \/ CallCommit(OtherCaller, FALSE)
    \/ \E c \in Callers : DoltAdd(c)
    \/ \E c \in Callers : DoltCommit(c)
    \/ DoltCurrentBranch(MainCaller)
    \/ DoltPull(MainCaller)

SpecConcurrent == Init /\ [][NextConcurrent]_vars

\* the next step of caller c can be taken whatever the other caller is doing
NotHeldBack(c) ==
    CASE pc[c] = "idle" ->
            IF c = MainCaller
            THEN /\ ENABLED CallAddAndCommit(c, TableA)
                 /\ ENABLED CallPull(c, Origin, None)
            ELSE /\ ENABLED CallAdd(c, TableA)
                 /\ ENABLED CallCommit(c, FALSE)
      [] pc[c] = "add" -> ENABLED DoltAdd(c)
      [] pc[c] = "commit" -> ENABLED DoltCommit(c)
      [] pc[c] = "current_branch" -> ENABLED DoltCurrentBranch(c)
      [] pc[c] = "pull" -> ENABLED DoltPull(c)
      [] OTHER -> TRUE

\* the commit of caller c ended as the engine answered its statement
AsTheEngineAnswered(c) ==
    LET reply == LastReply(c) IN
    ret[c] = IF reply.kind = "ok"
             THEN Return(IF reply.rows = <<>> THEN None ELSE Some(reply.rows[1][1]))
             ELSE IF reply.text \in NothingTexts THEN Return(None)
             ELSE Raise("DoltCommitError", FailedToCommit \o reply.text)

\* C16: the facade imposes no locking, queuing or ordering between concurrent
\* invocations: whatever one caller is doing, the other can start an operation
\* and can run its next statement, so every interleaving of their statements is
\* reachable; and a commit ends as the engine answered that caller's statement,
\* two commits never returning the same hash.
C16_NoOrderingImposed ==
    /\ \A c \in Callers : NotHeldBack(c)
    /\ \A c \in Callers :
          (pc[c] = "idle" /\ op[c].name \in Committing /\ obs[c].commitRan) =>
              AsTheEngineAnswered(c)
    /\ \A c, d \in Callers :
          (/\ c # d
           /\ pc[c] = "idle" /\ op[c].name \in Committing /\ obs[c].commitRan
           /\ pc[d] = "idle" /\ op[d].name \in Committing /\ obs[d].commitRan
           /\ ret[c].kind = "return" /\ ret[c].value # None
           /\ ret[d].kind = "return" /\ ret[d].value # None)
          => ret[c].value # ret[d].value

\* the other caller's commit ran between the stage and the commit statement of a
\* dolt_add_and_commit, which staged a changed table and still returned None
C16_Witness ==
    \E c, d \in Callers :
        /\ c # d
        /\ Done(c, "dolt_add_and_commit")
        /\ StagedByAdd(c) # {}
        /\ obs[c].commitStaged = {}
        /\ ret[c] = Return(None)
        /\ Done(d, "dolt_commit")
        /\ ret[d].kind = "return"
        /\ ret[d].value # None

----------------------------------------------------------------------------
(* management/commands/dolt_sync.py: status, stage, commit, push *)

DatabaseUpdateAt == <<"D","a","t","a","b","a","s","e"," ","u","p","d","a","t","e"," ","a","t"," ">>
\* datetime.now().strftime("%Y-%m-%d %H:%M:%S") at the time of the run
Timestamp == <<"2","0","2","6","-","0","1","-","0","1"," ","0","0",":","0","0",":","0","0">>

\* --tables as the caller may give it: absent, given empty, given with names
SyncTables == {None, Some(<<>>), Some(<<NoSuchTable, TableB>>)}

\* lines 88-90: a message that is None becomes the timestamped one
SyncMessage(message) ==
    IF message = None THEN DatabaseUpdateAt \o Timestamp ELSE message[1]

\* line 77 taking the status rows whatever --tables says
TablesToStageStatusOnly(tables, status) ==
    [i \in 1..Len(status) |-> status[i]["table_name"]]

\* line 77: tables or [row["table_name"] for row in status]
TablesToStage(tables, status) ==
    IF Truthy(tables) THEN tables[1]
    ELSE [i \in 1..Len(status) |-> status[i]["table_name"]]

\* lines 60-67: an exception of dolt_status leaves handle; an empty status goes
\* to the push, or ends the run under --no-push
AfterStatus(out, no_push) ==
    IF out.kind = "raise" THEN "idle"
    ELSE IF out.value = <<>> THEN (IF no_push THEN "idle" ELSE "sync_push")
    ELSE "sync_add"

\* lines 80-85 leaving the loop at the first DoltError
AfterStageAbortOnError(i, n, out) ==
    IF out.kind = "raise" THEN "idle"
    ELSE IF i < n THEN "sync_add" ELSE "sync_commit"

\* lines 80-85: DoltError is caught and the loop goes on with the next table
AfterStage(i, n, out) ==
    IF out.kind = "raise" /\ out.type # "DoltError" THEN "idle"
    ELSE IF i < n THEN "sync_add" ELSE "sync_commit"

\* lines 93-109 going on to the push whatever the commit did
AfterSyncCommitPushAlways(out, no_push) ==
    IF ~ no_push THEN "sync_push" ELSE "idle"

\* lines 93-109: the push follows only a commit that returned a hash
AfterSyncCommit(out, no_push) ==
    IF out.kind = "return" /\ Truthy(out.value) /\ ~ no_push THEN "sync_push" ELSE "idle"

\* handle() is entered; its first call is dolt_status(exclude_ignored=True)
CallSync(c, message, force, no_push, tables) ==
    /\ Begin(c, [name |-> "dolt_sync", message |-> message, author |-> DefaultAuthor,
                 force |-> force, no_push |-> no_push, tables |-> tables,
                 to_stage |-> <<>>, i |-> 1], "sync_status")

\* line 60
SyncStatus(c) ==
    /\ pc[c] = "sync_status"
    /\ \E reply \in StatusReplies(TRUE) :
        LET out == DoltStatusResult(reply)
            next == AfterStatus(out, op[c].no_push)
        IN  /\ Executed(c, StatusStmt(TRUE), reply)
            /\ IF next = "idle"
               THEN /\ Finish(c, IF out.kind = "raise" THEN out ELSE Return(None))
                    /\ UNCHANGED op
               ELSE /\ Proceed(c, next)
                    /\ op' = [op EXCEPT ![c].to_stage =
                                 IF next = "sync_add"
                                 THEN TablesToStage(op[c].tables, out.value)
                                 ELSE <<>>]
            /\ UNCHANGED <<engineVars, readVars>>

\* lines 80-85: one turn of the loop, dolt_add(table) with DoltError caught
SyncAdd(c) ==
    /\ pc[c] = "sync_add"
    /\ \E reply \in AddReplies(op[c].to_stage[op[c].i]) :
        LET table == op[c].to_stage[op[c].i]
            out == DoltAddResult(table, reply)
            next == AfterStage(op[c].i, Len(op[c].to_stage), out)
        IN  /\ stmts' = [stmts EXCEPT ![c] = Append(@, AddStmt(table))]
            /\ obs' = [obs EXCEPT
                          ![c].replies = Append(@, reply),
                          ![c].addStaged = IF op[c].i = 1 THEN staged ELSE @,
                          ![c].addWorking = IF reply.kind = "ok"
                                            THEN @ \cup (EngineAddStaged(table) \ staged)
                                            ELSE @]
            /\ IF reply.kind = "ok"
               THEN /\ staged' = EngineAddStaged(table)
                    /\ working' = EngineAddWorking(table)
               ELSE UNCHANGED <<working, staged>>
            /\ IF next = "idle" THEN Finish(c, out) ELSE Proceed(c, next)
            /\ op' = [op EXCEPT ![c].i = @ + 1]
            /\ UNCHANGED <<ignore, active, log, remotes, readVars>>

\* lines 93-106: dolt_commit(message, author=author), DoltCommitError caught
SyncCommit(c) ==
    /\ pc[c] = "sync_commit"
    /\ \E reply \in CommitReplies(CommitStmt(SyncMessage(op[c].message), op[c].author, FALSE)) :
        LET out == DoltCommitResult(reply)
            next == AfterSyncCommit(out, op[c].no_push)
        IN  /\ stmts' = [stmts EXCEPT ![c] =
                    Append(@, CommitStmt(SyncMessage(op[c].message), op[c].author, FALSE))]
            /\ obs' = [obs EXCEPT ![c].replies = Append(@, reply),
                                  ![c].commitStaged = staged,
                                  ![c].commitRan = TRUE,
                                  ![c].branch = IF reply.kind = "ok" THEN Some(active) ELSE @]
            /\ IF reply.kind = "ok"
               THEN /\ log' = <<NextHash>> \o log
                    /\ staged' = {}
               ELSE UNCHANGED <<log, staged>>
            /\ IF next = "idle" THEN Finish(c, Return(None)) ELSE Proceed(c, next)
            /\ UNCHANGED <<working, ignore, active, remotes, op, readVars>>

\* dolt_push pushing the engine's checked-out branch when none is passed
PushDefaultsActiveBranch == [remote |-> Origin, branch |-> active]

\* services.py lines 246-247: what dolt_push takes for remote and branch when the
\* caller passes neither
PushDefaults == [remote |-> Origin, branch |-> Main]

\* lines 111-121: dolt_push(force=force) with the defaults "origin" and "main",
\* DoltPushError caught
SyncPush(c) ==
    /\ pc[c] = "sync_push"
    /\ \E environ \in {None, Some(Eve)}, reply \in PushReplies(Origin) :
        /\ Executed(c, PushStmt(PushArgs(EffectiveUser(None, environ), op[c].force,
                                         PushDefaults.remote, PushDefaults.branch)), reply)
        /\ Finish(c, Return(None))
        /\ UNCHANGED <<engineVars, op, readVars>>

NextSync ==
    \/ \E t \in Tables : EnvModify(t)
    \/ \E v \in {"absent", "1"} : EnvIgnore(PatternT, v)
    \/ \E t \in Tables : CallAdd(MainCaller, t)
    \/ DoltAdd(MainCaller)
    \/ \E m \in {None, Some(Message)}, f \in BOOLEAN, n \in BOOLEAN, t \in SyncTables :
          CallSync(MainCaller, m, f, n, t)
    \/ SyncStatus(MainCaller)
    \/ SyncAdd(MainCaller)
    \/ SyncCommit(MainCaller)
    \/ SyncPush(MainCaller)

SpecSync == Init /\ [][NextSync]_vars

\* the place of a statement in the order status, stage, commit, push
SyncRank(stmt) ==
    IF stmt.sql = StatusStmt(TRUE).sql THEN 1
    ELSE IF stmt.sql = "CALL DOLT_ADD(%s)" THEN 2
    ELSE IF stmt.sql = "CALL DOLT_COMMIT('-m', %s, '--author', %s)" THEN 3
    ELSE IF stmt.sql = "CALL DOLT_PUSH({placeholders})" THEN 4
    ELSE 0

\* the statements of that place caller c's run has issued
SyncCalls(c, rank) == {i \in 1..Len(stmts[c]) : SyncRank(stmts[c][i]) = rank}

\* the filtered status of c's run came back empty
SyncStatusEmpty(c) ==
    /\ Len(obs[c].replies) >= 1
    /\ obs[c].replies[1].kind = "ok"
    /\ obs[c].replies[1].rows = <<>>

\* the commit of c's run returned a hash
SyncCommitHash(c) ==
    \E i \in SyncCalls(c, 3) :
        /\ obs[c].replies[i].kind = "ok"
        /\ obs[c].replies[i].rows # <<>>
        /\ obs[c].replies[i].rows[1][1] # <<>>

\* C18: in a run of dolt_sync the engine calls come in the order status, stage
\* calls, at most one commit, at most one push; the push is attempted exactly
\* when --no-push is not given and the filtered status was empty or the commit
\* returned a hash, hence never after a failed commit or one that returned None;
\* with an empty filtered status nothing is staged or committed.
C18_SyncOrder ==
    \A c \in Callers :
        op[c].name = "dolt_sync" =>
            /\ \A i \in 1..Len(stmts[c]) : SyncRank(stmts[c][i]) # 0
            /\ \A i, j \in 1..Len(stmts[c]) :
                  i < j => SyncRank(stmts[c][i]) <= SyncRank(stmts[c][j])
            /\ SyncCalls(c, 1) = (IF stmts[c] = <<>> THEN {} ELSE {1})
            /\ Cardinality(SyncCalls(c, 3)) <= 1
            /\ Cardinality(SyncCalls(c, 4)) <= 1
            /\ SyncCalls(c, 4) # {} =>
                  /\ ~ op[c].no_push
                  /\ SyncStatusEmpty(c) \/ SyncCommitHash(c)
            /\ (pc[c] = "idle" /\ ret[c].kind # "none") =>
                  (SyncCalls(c, 4) # {} <=>
                      (~ op[c].no_push /\ (SyncStatusEmpty(c) \/ SyncCommitHash(c))))
            /\ SyncStatusEmpty(c) => (SyncCalls(c, 2) = {} /\ SyncCalls(c, 3) = {})

\* a run went through status, two stage calls, the commit and the push
C18_Witness ==
    \E c \in Callers :
        /\ Done(c, "dolt_sync")
        /\ Len(stmts[c]) = 5
        /\ Cardinality(SyncCalls(c, 2)) = 2
        /\ SyncCommitHash(c)
        /\ SyncCalls(c, 4) = {5}

\* the list the run stages: --tables when given and not empty, else the table
\* names of the status rows
SyncList(c) ==
    IF Truthy(op[c].tables) THEN op[c].tables[1]
    ELSE [i \in 1..Len(obs[c].replies[1].rows) |-> obs[c].replies[1].rows[i][1]]

\* C19: in dolt_sync a DoltError raised while staging one table does not end the
\* run: every entry of the list is passed to stage once, in list order, the
\* commit is attempted afterwards, and the commit takes what was staged before
\* together with the changes of the tables whose staging succeeded.
C19_StageFailureDoesNotAbort ==
    \A c \in Callers :
        (/\ op[c].name = "dolt_sync"
         /\ Len(obs[c].replies) >= 1
         /\ obs[c].replies[1].kind = "ok"
         /\ obs[c].replies[1].rows # <<>>)
        => LET list == SyncList(c)
               n == Len(list)
               issued == Len(stmts[c]) - 1
           IN  /\ \A i \in 1..Min(issued, n) : stmts[c][i + 1] = AddStmt(list[i])
               /\ issued < n => pc[c] = "sync_add"
               /\ issued >= n => (pc[c] = "sync_commit" \/ obs[c].commitRan)
               /\ obs[c].commitRan =>
                     /\ SyncRank(stmts[c][n + 2]) = 3
                     /\ obs[c].commitStaged = obs[c].addStaged \cup obs[c].addWorking
                     /\ \A t \in obs[c].commitStaged \ obs[c].addStaged :
                           \E i \in 1..n : list[i] = t /\ obs[c].replies[i + 1].kind = "ok"

\* the first table could not be staged, the second was, and the commit took it
C19_Witness ==
    \E c \in Callers :
        /\ Done(c, "dolt_sync")
        /\ Len(obs[c].replies) >= 4
        /\ obs[c].replies[2].kind = "exc"
        /\ obs[c].replies[3].kind = "ok"
        /\ obs[c].commitRan
        /\ obs[c].commitStaged = {TableB}
        /\ SyncCommitHash(c)

\* the current-branch queries among the statements of caller c's invocation
BranchQueries(c) == {i \in 1..Len(stmts[c]) : stmts[c][i] = CurrentBranchStmt}

\* the pull statements among them
PullCalls(c) == {i \in 1..Len(stmts[c]) : stmts[c][i].sql = "CALL DOLT_PULL(%s, %s)"}

\* C21: with branch omitted dolt_pull issues the current-branch query once,
\* before the pull call, and pulls the branch the query returned ("main" when it
\* returned no row); with a branch given, the empty string included, it issues
\* no such query and pulls the given branch; the pull statement receives
\* (remote, branch) in this order.
C21_PullResolvesBranchOnce ==
    \A c \in Callers :
        op[c].name = "dolt_pull" =>
            /\ Cardinality(PullCalls(c)) <= 1
            /\ Done(c, "dolt_pull") =>
                  (PullCalls(c) = {} <=> (op[c].branch = None /\ obs[c].replies[1].kind = "exc"))
            /\ IF op[c].branch = None
               THEN /\ BranchQueries(c) = (IF stmts[c] = <<>> THEN {} ELSE {1})
                    /\ PullCalls(c) \subseteq {2}
                    /\ PullCalls(c) # {} =>
                          /\ obs[c].replies[1].kind = "ok"
                          /\ stmts[c][2].args =
                                <<op[c].remote,
                                  IF obs[c].replies[1].rows = <<>> THEN Main
                                  ELSE obs[c].replies[1].rows[1][1]>>
               ELSE /\ BranchQueries(c) = {}
                    /\ PullCalls(c) \subseteq {1}
                    /\ PullCalls(c) # {} => stmts[c][1].args = <<op[c].remote, op[c].branch[1]>>
            /\ \A i \in PullCalls(c) : stmts[c][i].placeholders = 2

\* the branch was omitted, the engine named dev, and dev was pulled from backup
C21_Witness ==
    \E c \in Callers :
        /\ Done(c, "dolt_pull")
        /\ op[c].branch = None
        /\ op[c].remote = Backup
        /\ obs[c].replies[1] = Ok(<<<<Dev>>>>)
        /\ stmts[c] = <<CurrentBranchStmt, PullStmt(Backup, Dev)>>

----------------------------------------------------------------------------
(* dolt_sync with the push, while other sessions edit rows and dolt_ignore and
   check out branches; --tables may name a table that an ignore pattern matches *)

NextSyncTargets ==
    \/ \E t \in Tables : EnvModify(t)
    \/ \E v \in {"absent", "1"} : EnvIgnore(PatternT, v)
    \/ \E b \in Branches : EnvCheckout(b)
    \/ \E f \in BOOLEAN, t \in SyncTables \cup {Some(<<TableA>>)} :
          CallSync(MainCaller, Some(Message), f, FALSE, t)
    \/ SyncStatus(MainCaller)
    \/ SyncAdd(MainCaller)
    \/ SyncCommit(MainCaller)
    \/ SyncPush(MainCaller)

SpecSyncTargets == Init /\ [][NextSyncTargets]_vars

\* the tables with changes that no active ignore pattern matches
ChangedNotIgnored ==
    {t \in working \cup staged : \A p \in Patterns : ignore[p] = "1" => ~ Like(t, p)}

\* the tables the run of caller c has passed to DOLT_ADD, as of the next state
SyncStagedNext(c) ==
    {stmts'[c][i].args[1] : i \in {j \in 1..Len(stmts'[c]) : SyncRank(stmts'[c][j]) = 2}}

\* the tables the run of caller c has passed to DOLT_ADD so far
SyncStaged(c) == {stmts[c][i].args[1] : i \in SyncCalls(c, 2)}

\* the rows the run's dolt_status returned
SyncStatusRows(c) == DoltStatusResult(obs[c].replies[1]).value

\* C22 as stated: a finished run whose status read succeeded has staged exactly
\* the listed tables when --tables was given and not empty, and exactly the
\* table names of the ignore-filtered status otherwise.
C22_Original ==
    \A c \in Callers :
        (Done(c, "dolt_sync") /\ DoltStatusResult(obs[c].replies[1]).kind = "return") =>
            SyncStaged(c) =
                IF Truthy(op[c].tables)
                THEN {op[c].tables[1][i] : i \in 1..Len(op[c].tables[1])}
                ELSE {SyncStatusRows(c)[i]["table_name"] : i \in 1..Len(SyncStatusRows(c))}

\* C22: when the ignore-filtered status dolt_sync reads at the start is not
\* empty, the run stages exactly the table names of that status if --tables is
\* absent or empty, so no table matching an ignore pattern active at that time
\* is staged, and exactly the listed tables if --tables is given and not empty,
\* whether or not they are in the status or match an ignore pattern; when that
\* status is empty the run stages nothing, with or without --tables.
C22_StagesStatusOrListedTables ==
    [][\A c \in Callers :
          op[c].name = "dolt_sync" =>
              /\ (pc[c] = "sync_status" /\ pc'[c] = "sync_add") =>
                    /\ SyncStatusRows(c)' # <<>>
                    /\ IF Truthy(op[c].tables)
                       THEN op'[c].to_stage = op[c].tables[1]
                       ELSE /\ {op'[c].to_stage[i] : i \in 1..Len(op'[c].to_stage)} = ChangedNotIgnored
                            /\ \A i \in 1..Len(op'[c].to_stage), q \in Patterns :
                                  ignore[q] = "1" => ~ Like(op'[c].to_stage[i], q)
              /\ (pc[c] = "sync_status" /\ stmts'[c] # stmts[c] /\ pc'[c] # "sync_add") =>
                    /\ SyncStagedNext(c) = {}
                    /\ DoltStatusResult(obs'[c].replies[1]).kind = "return" =>
                          SyncStatusRows(c)' = <<>>
              /\ (pc[c] # "sync_add" /\ Len(stmts'[c]) > Len(stmts[c])) =>
                    SyncRank(stmts'[c][Len(stmts'[c])]) # 2
              /\ (pc[c] = "sync_add" /\ stmts'[c] # stmts[c]) =>
                    /\ op'[c].to_stage = op[c].to_stage
                    /\ stmts'[c] = Append(stmts[c], AddStmt(op[c].to_stage[op[c].i]))
                    /\ pc'[c] \in {"sync_add", "sync_commit"}
                    /\ pc'[c] = "sync_commit" =>
                          SyncStagedNext(c) =
                              {op[c].to_stage[i] : i \in 1..Len(op[c].to_stage)}]_vars

\* a run without --tables found ta hidden by the pattern t% and stages ub alone
C22_Witness ==
    \E c \in Callers :
        /\ op[c].name = "dolt_sync"
        /\ pc[c] = "sync_commit"
        /\ op[c].tables = None
        /\ ignore[PatternT] = "1"
        /\ TableA \in working
        /\ Len(stmts[c]) = 2
        /\ stmts[c][2] = AddStmt(TableB)

\* the push statements of caller c's run
SyncPushCalls(c) == SyncCalls(c, 4)

\* C23: every push dolt_sync issues names remote "origin" and branch "main" as
\* its last two arguments, preceded only by the user of the environment and by
\* --force exactly when the command line gave --force; the engine's checked-out
\* branch has no part in it, so when the run's commit was made on another branch
\* that branch is not the one pushed.
C23_SyncPushesOriginMain ==
    \A c \in Callers :
        op[c].name = "dolt_sync" =>
            \A i \in SyncPushCalls(c) :
                LET a == stmts[c][i].args
                    flags == SubSeq(a, 1, Len(a) - 2)
                IN  /\ Len(a) >= 2
                    /\ stmts[c][i].placeholders = Len(a)
                    /\ a[Len(a) - 1] = Origin
                    /\ a[Len(a)] = Main
                    /\ flags \in {u \o (IF op[c].force THEN <<DashForce>> ELSE <<>>) :
                                    u \in {<<>>, <<DashUser, Eve>>}}
                    /\ (obs[c].branch # None /\ obs[c].branch[1] # Main) =>
                          a[Len(a)] # obs[c].branch[1]

\* the run committed while dev was checked out, and with dev still checked
\* out pushed main to origin, and the engine accepted the push
C23_Witness ==
    \E c \in Callers :
        /\ Done(c, "dolt_sync")
        /\ SyncCommitHash(c)
        /\ obs[c].branch = Some(Dev)
        /\ active = Dev
        /\ \E i \in SyncPushCalls(c) :
              /\ stmts[c][i].args = <<Origin, Main>>
              /\ obs[c].replies[i].kind = "ok"

====
